---- MODULE Spec2Model ----
(***************************************************************************)
(* Discounted-cash-flow calculator: the command-line batch of model.py,    *)
(* DiscountedCashFlowModel.calculate and its nine steps.                   *)
(*                                                                         *)
(* Spec is the batch of model.py: fetch, calculate, print, next ticker.    *)
(* SpecCombine is one call of calculate on arbitrary statement lists, up   *)
(* to the revenue growth rate.  SpecProvider is one call of                *)
(* FinancialModelingPrep.get_financials.                                   *)
(*                                                                         *)
(* Numbers.  Python floats are modelled as exact rationals <<n, d>> in     *)
(* lowest terms with d > 0; rounding of IEEE doubles is not modelled.  A   *)
(* division whose divisor is zero raises ZeroDivisionError, as in Python.  *)
(* An uncaught exception ends the process: model.py has no try/except.     *)
(***************************************************************************)
EXTENDS Integers, Sequences, FiniteSets, TLC

(* ------------------------------ bounds --------------------------------- *)
\* most yearly records the provider returns for one statement
MaxHistory == 3
\* largest years_to_project the model object is constructed with
MaxProject == 2
\* number of ticker symbols given with --ticks
NumTicks == 2

\* the first fiscal year the provider knows
BaseYear == 2019
\* longest statement list handed to calculate directly, and largest
\* minimum_years and maximum_years asked of get_financials
MaxRecords == 3

(* --------------------------- rational numbers -------------------------- *)
Abs(x) == IF x < 0 THEN -x ELSE x

RECURSIVE Gcd(_, _)
Gcd(a, b) == IF b = 0 THEN a ELSE Gcd(b, a % b)

\* the rational n/d (d # 0) in lowest terms with a positive denominator
Rat(n, d) ==
    LET g == Gcd(Abs(n), Abs(d))
        s == IF d < 0 THEN -1 ELSE 1
    IN  <<(s * n) \div g, (s * d) \div g>>

Zero == <<0, 1>>
One == <<1, 1>>
\* float(x) of a JSON number or numeric string holding the integer x
float(x) == <<x, 1>>

RAdd(a, b) ==
    LET g == Gcd(a[2], b[2])
        l == (a[2] \div g) * b[2]
    IN  Rat(a[1] * (l \div a[2]) + b[1] * (l \div b[2]), l)
RNeg(a) == <<-a[1], a[2]>>
RSub(a, b) == RAdd(a, RNeg(b))
RMul(a, b) ==
    LET g1 == Gcd(Abs(a[1]), b[2])
        g2 == Gcd(Abs(b[1]), a[2])
    IN  Rat((a[1] \div g1) * (b[1] \div g2), (a[2] \div g2) * (b[2] \div g1))
\* a / b, defined for b # 0 only (the callers raise ZeroDivisionError first)
RDiv(a, b) == RMul(a, Rat(b[2], b[1]))
RIsZero(a) == a[1] = 0
RLess(a, b) == RSub(a, b)[1] < 0
RLeq(a, b) == RSub(a, b)[1] <= 0

\* base ** t for an integer t >= 0
RECURSIVE RPow(_, _)
RPow(base, t) == IF t <= 0 THEN One ELSE RMul(base, RPow(base, t - 1))

(* --------------------------- Python builtins --------------------------- *)
\* a slip: the first element taken for the smallest
PyMinAsFirst(xs) == xs[1]

\* min(xs): the first smallest element of a non-empty list
RECURSIVE PyMin(_)
PyMin(xs) ==
    IF Len(xs) = 1 THEN xs[1]
    ELSE LET m == PyMin(SubSeq(xs, 1, Len(xs) - 1))
         IN  IF RLess(xs[Len(xs)], m) THEN xs[Len(xs)] ELSE m

\* max(xs): the first largest element of a non-empty list
RECURSIVE PyMax(_)
PyMax(xs) ==
    IF Len(xs) = 1 THEN xs[1]
    ELSE LET m == PyMax(SubSeq(xs, 1, Len(xs) - 1))
         IN  IF RLess(m, xs[Len(xs)]) THEN xs[Len(xs)] ELSE m

\* sum(xs): 0 + xs[0] + xs[1] + ..., left to right
RECURSIVE PySum(_)
PySum(xs) ==
    IF Len(xs) = 0 THEN Zero
    ELSE RAdd(PySum(SubSeq(xs, 1, Len(xs) - 1)), xs[Len(xs)])

\* a slip: the list returned in the order it was built
UnsortedByYear(xs) == xs

\* sorted(xs, key=lambda x: x["year"]): a stable ascending sort
RECURSIVE SortedByYear(_)
SortedByYear(xs) ==
    IF Len(xs) <= 1 THEN xs
    ELSE LET rest == SortedByYear(SubSeq(xs, 1, Len(xs) - 1))
             x == xs[Len(xs)]
             k == Cardinality({i \in 1..Len(rest) : rest[i].year <= x.year})
         IN  SubSeq(rest, 1, k) \o <<x>> \o SubSeq(rest, k + 1, Len(rest))

(* ------------------------------ the state ------------------------------ *)
VARIABLES
    \* DiscountedCashFlowModel's fields (__init__)
    required_rate_of_return, years_to_project, risk, perpetual_growth_rate,
    margin_of_safety,
    \* model.py: index into args.ticks, the loop's locals
    tick, financials, quotes, evaluated,
    \* where the process is, the uncaught exception if any, and the steps of
    \* calculate the current call has entered
    pc, error, stages,
    \* calculate's locals
    metrics, free_cash_flow_rate_percentage, revenue_growth_rate,
    net_income_margins_percentage, future_metrics, terminal_value,
    today_value, fair_value, fair_with_margin_of_safety,
    \* get_financials: what the three statement endpoints answer, the two
    \* arguments, and the dict the call fills
    provider, minimum_years, maximum_years, fetched

config == <<required_rate_of_return, years_to_project, risk,
            perpetual_growth_rate, margin_of_safety>>
main_locals == <<tick, financials, quotes, evaluated>>
ratios == <<free_cash_flow_rate_percentage, revenue_growth_rate,
            net_income_margins_percentage>>
values == <<terminal_value, today_value, fair_value,
            fair_with_margin_of_safety>>
request == <<provider, minimum_years, maximum_years, fetched>>
vars == <<config, request, main_locals, pc, error, stages, metrics, ratios,
          future_metrics, values>>

\* a local that is not bound yet
None == <<0, 0>>
NoFinancials == [income_statement |-> <<>>, cash_flow_statement |-> <<>>]
\* an endpoint's answer as _call_api returns it: the parsed json's
\* "financials" list, or the exception of a failed request
Response(records, failed) == [financials |-> records, err |-> failed]
\* nothing asked of the provider
NoResponses ==
    [income_statement |-> Response(<<>>, FALSE), balance_sheet |-> Response(<<>>, FALSE),
     cash_flow_statement |-> Response(<<>>, FALSE)]
\* financials = {}
EmptyDict == [key \in {} |-> <<>>]

(* ------------------------------- inputs -------------------------------- *)
\* the risk module's constants, equal to the strings --risk accepts
Risk_CONSERVATIVE == "conservative"
Risk_MODERATE == "moderate"
Risk_BULLISH == "bullish"

\* percentages given as --return_percentage and --perpetual_growth_rate
RatePercents == {0, 100}
\* percentages given as --margin_of_safety
MarginPercents == {0, 50}
\* postures: the three of --risk, and one the class accepts all the same
RiskValues == {Risk_CONSERVATIVE, Risk_MODERATE, Risk_BULLISH, "aggressive"}
\* sharesOutstanding figures of the quote endpoint
SharesValues == {-2, 0, 2}

\* one fiscal year as the provider reports it: the income statement's Revenue
\* and Net Income, the cash-flow statement's Operating Cash Flow and Capital
\* Expenditure
YearChoices ==
    { [Revenue |-> 100, NetIncome |-> 50, OperatingCashFlow |-> 75, CapitalExpenditure |-> 25],
      [Revenue |-> 200, NetIncome |-> 50, OperatingCashFlow |-> 25, CapitalExpenditure |-> 75],
      [Revenue |-> 100, NetIncome |-> 0, OperatingCashFlow |-> 75, CapitalExpenditure |-> 25] }

\* sequences over S of length exactly n
RECURSIVE SeqsOfLen(_, _)
SeqsOfLen(S, n) ==
    IF n = 0 THEN {<<>>}
    ELSE {Append(s, x) : s \in SeqsOfLen(S, n - 1), x \in S}

\* the date "YYYY-12-31" as its "-"-separated tokens
DateOf(y) == <<y, 12, 31>>

\* the provider's answer for a history h: both statements list the same
\* fiscal years, the most recent first
ProviderFinancials(h) ==
    [income_statement |->
        [k \in 1..Len(h) |-> [date |-> DateOf(BaseYear + Len(h) - k),
                              Revenue |-> h[k].Revenue,
                              NetIncome |-> h[k].NetIncome]],
     cash_flow_statement |->
        [k \in 1..Len(h) |-> [date |-> DateOf(BaseYear + Len(h) - k),
                              OperatingCashFlow |-> h[k].OperatingCashFlow,
                              CapitalExpenditure |-> h[k].CapitalExpenditure]]]

Histories == UNION {SeqsOfLen(YearChoices, n) : n \in 0..MaxHistory}

(* ------------------- DiscountedCashFlowModel's methods ------------------ *)
\* int(date.split("-")[0])
YearOfDate(date) == date[1]

\* FCF = Cash Flow from Operations - Capex
_calculate_free_cash_flow(cash_flow_year) ==
    RSub(float(cash_flow_year.OperatingCashFlow), float(cash_flow_year.CapitalExpenditure))

\* zip pairs the two statements by position and stops at the shorter one
_combine_metrics(fin) ==
    LET income == fin.income_statement
        cash == fin.cash_flow_statement
        n == IF Len(income) < Len(cash) THEN Len(income) ELSE Len(cash)
        combined == [k \in 1..n |->
                        [year |-> YearOfDate(income[k].date),
                         revenue |-> float(income[k].Revenue),
                         net_income |-> float(income[k].NetIncome),
                         free_cash_flow |-> _calculate_free_cash_flow(cash[k])]]
    IN  SortedByYear(combined)

\* the exception _choose_percentage_based_on_risk raises on a list, or "none":
\* min() and max() of an empty list raise ValueError, sum([]) / len([]) is 0 / 0
ChooseRaises(self_risk, percentages) ==
    IF Len(percentages) > 0 THEN "none"
    ELSE IF self_risk = Risk_MODERATE THEN "ZeroDivisionError" ELSE "ValueError"

\* a slip: no posture is recognised, every call takes the else branch
_choose_percentage_always_max(self_risk, percentages) == PyMax(percentages)

\* self_risk is self.risk
_choose_percentage_based_on_risk(self_risk, percentages) ==
    IF self_risk = Risk_CONSERVATIVE THEN PyMin(percentages)
    ELSE IF self_risk = Risk_MODERATE
         THEN RDiv(PySum(percentages), float(Len(percentages)))
         ELSE PyMax(percentages)

_add_percentage(num, percentage) == RAdd(num, RMul(num, percentage))
\* a slip: the percentage itself subtracted, not that share of num
_subtract_percentage_flat(num, percentage) == RSub(num, percentage)
_subtract_percentage(num, percentage) == RSub(num, RMul(num, percentage))
\* defined for old # 0; the caller raises ZeroDivisionError otherwise
_percentage_change(old, new) == RDiv(RSub(new, old), old)

\* the list comprehension of _calculate_free_cash_flow_rate
FreeCashFlowRatios(ms) ==
    [k \in 1..Len(ms) |-> RDiv(ms[k].free_cash_flow, ms[k].net_income)]
FreeCashFlowRatiosRaise(ms) == \E k \in 1..Len(ms) : RIsZero(ms[k].net_income)

\* a slip: every year compared with the first year, not with the year before
PercentageChangesFromFirst(ms) ==
    [k \in 1..(Len(ms) - 1) |-> _percentage_change(ms[1].revenue, ms[k + 1].revenue)]

\* the loop of _calculate_revenue_growth_rate: one change per consecutive pair
PercentageChanges(ms) ==
    [k \in 1..(Len(ms) - 1) |-> _percentage_change(ms[k].revenue, ms[k + 1].revenue)]
PercentageChangesRaise(ms) == \E k \in 1..(Len(ms) - 1) : RIsZero(ms[k].revenue)

\* the list comprehension of _calculate_net_income_margins_percentage
NetIncomeMargins(ms) ==
    [k \in 1..Len(ms) |-> RDiv(ms[k].net_income, ms[k].revenue)]
NetIncomeMarginsRaise(ms) == \E k \in 1..Len(ms) : RIsZero(ms[k].revenue)

\* Python values a projected entry's "year" key can hold
PyInt(n) == [type |-> "int", val |-> n]
PyListRef == [type |-> "list", val |-> 0]

\* a slip: every year grown from the last historical revenue, not compounded
CurrRevenueFromLast(last_revenue, rate, k) ==
    IF k = 0 THEN last_revenue ELSE _add_percentage(last_revenue, rate)

\* curr_revenue after k rounds of the loop of _calculate_future_revenue
RECURSIVE CurrRevenue(_, _, _)
CurrRevenue(last_revenue, rate, k) ==
    IF k = 0 THEN last_revenue
    ELSE _add_percentage(CurrRevenue(last_revenue, rate, k - 1), rate)

\* what the loop stores under "year": the list future_revenue itself, not the
\* loop variable future_year
FutureYearLabel(year, k) == PyListRef

\* one entry per future_year in range(year + 1, year + years_to_project + 1)
_calculate_future_revenue(ms, rate, n) ==
    LET last == ms[Len(ms)]
    IN  [k \in 1..n |-> [year |-> FutureYearLabel(last.year, k),
                          revenue |-> CurrRevenue(last.revenue, rate, k)]]

_calculate_future_net_income_and_free_cash_flow(future_revenue, fcf_rate, margins) ==
    [k \in 1..Len(future_revenue) |->
        LET future_net_income == RMul(future_revenue[k].revenue, margins)
        IN  [year |-> future_revenue[k].year,
             revenue |-> future_revenue[k].revenue,
             net_income |-> future_net_income,
             free_cash_flow |-> RMul(future_net_income, fcf_rate)]]

_estimate_future_metrics(ms, fcf_rate, growth, margins) ==
    _calculate_future_net_income_and_free_cash_flow(
        _calculate_future_revenue(ms, growth, years_to_project), fcf_rate, margins)

\* float(percent / 100)
Fraction(percent) == Rat(percent, 100)

\* TV = (FCF * (1 + g)) / (r - g)
_calculate_terminal_value(last_future_metric) ==
    LET fcf == last_future_metric.free_cash_flow
        g == Fraction(perpetual_growth_rate)
        r == Fraction(required_rate_of_return)
    IN  RDiv(RMul(fcf, RAdd(One, g)), RSub(r, g))
TerminalValueRaises ==
    RIsZero(RSub(Fraction(required_rate_of_return), Fraction(perpetual_growth_rate)))

_discount_factor(r, t) == RPow(RAdd(One, r), t)

\* a slip: the cash flow compounded instead of discounted
_present_value_compounded(fcf, r, t) == RMul(fcf, _discount_factor(r, t))
_present_value(fcf, r, t) == RDiv(fcf, _discount_factor(r, t))

\* a slip: the terminal value discounted one year further
TerminalExponentNext(fm) == Len(fm) + 1
\* the exponent the terminal value is discounted with
TerminalExponent(fm) == Len(fm)

_calculate_today_value(fm, tv) ==
    LET r == Fraction(required_rate_of_return)
        present_values_future_fcf ==
            PySum([i \in 1..Len(fm) |-> _present_value(fm[i].free_cash_flow, r, i)])
        present_value_terminal == _present_value(tv, r, TerminalExponent(fm))
    IN  RAdd(present_values_future_fcf, present_value_terminal)
\* (1 + r) ** t is 0 only for r = -1
TodayValueRaises == RIsZero(RAdd(One, Fraction(required_rate_of_return)))

SharesOutstanding(q) == q[1].sharesOutstanding
_calculate_fair_value(q, tv) == RDiv(tv, float(SharesOutstanding(q)))
FairValueRaises(q) == SharesOutstanding(q) = 0

_apply_margin_of_safety(fv) ==
    _subtract_percentage(fv, Fraction(margin_of_safety))

(* ------------------------------- actions ------------------------------- *)
\* model.py builds the model object once from the parsed arguments; the class
\* itself checks none of them
Init ==
    /\ required_rate_of_return \in RatePercents
    /\ years_to_project \in 0..MaxProject
    /\ risk \in RiskValues
    /\ perpetual_growth_rate \in RatePercents
    /\ margin_of_safety \in MarginPercents
    /\ tick = 1
    /\ financials = NoFinancials
    /\ quotes = <<>>
    /\ evaluated = {}
    /\ pc = "get_financials"
    /\ error = "none"
    /\ stages = <<>>
    /\ metrics = <<>>
    /\ free_cash_flow_rate_percentage = None
    /\ revenue_growth_rate = None
    /\ net_income_margins_percentage = None
    /\ future_metrics = <<>>
    /\ terminal_value = None
    /\ today_value = None
    /\ fair_value = None
    /\ fair_with_margin_of_safety = None
    /\ provider = NoResponses
    /\ minimum_years = 1
    /\ maximum_years = MaxHistory
    /\ fetched = EmptyDict

\* a slip: the exception is swallowed and the call returns all the same
RaiseAndReturn(kind) ==
    /\ pc' = "return"
    /\ error' = kind

\* an exception nothing catches: the traceback ends the process
Raise(kind) ==
    /\ pc' = "raised"
    /\ error' = kind

\* a step of calculate is entered
Enter(step) ==
    /\ pc = step
    /\ stages' = Append(stages, step)

\* api.get_financials(tick, args.minimum_years): the provider's answer, or the
\* exception it raises (a failed request, too few years, or the TypeError of a
\* call that does not fit the provider's present signature, which also takes
\* maximum_years); nothing in the loop catches it
GetFinancials ==
    /\ pc = "get_financials"
    /\ \/ /\ Raise("Exception")
          /\ UNCHANGED financials
       \/ \E h \in Histories :
            /\ financials' = ProviderFinancials(h)
            /\ pc' = "get_quotes"
            /\ UNCHANGED error
    /\ UNCHANGED <<config, request, tick, quotes, evaluated, stages, metrics, ratios,
                   future_metrics, values>>

\* api.get_quotes(tick), then the call of model.calculate
GetQuotes ==
    /\ pc = "get_quotes"
    /\ \/ /\ Raise("Exception")
          /\ UNCHANGED quotes
       \/ \E s \in SharesValues :
            /\ quotes' = <<[sharesOutstanding |-> s]>>
            /\ pc' = "_combine_metrics"
            /\ UNCHANGED error
    /\ UNCHANGED <<config, request, tick, financials, evaluated, stages, metrics,
                   ratios, future_metrics, values>>

\* step 1
CombineMetrics ==
    /\ Enter("_combine_metrics")
    /\ metrics' = _combine_metrics(financials)
    /\ pc' = "_calculate_free_cash_flow_rate"
    /\ UNCHANGED <<config, request, main_locals, error, ratios, future_metrics, values>>

\* step 2
CalculateFreeCashFlowRate ==
    /\ Enter("_calculate_free_cash_flow_rate")
    /\ IF FreeCashFlowRatiosRaise(metrics)
       THEN Raise("ZeroDivisionError") /\ UNCHANGED free_cash_flow_rate_percentage
       ELSE IF ChooseRaises(risk, FreeCashFlowRatios(metrics)) # "none"
       THEN /\ Raise(ChooseRaises(risk, FreeCashFlowRatios(metrics)))
            /\ UNCHANGED free_cash_flow_rate_percentage
       ELSE /\ free_cash_flow_rate_percentage' =
                    _choose_percentage_based_on_risk(risk, FreeCashFlowRatios(metrics))
            /\ pc' = "_calculate_revenue_growth_rate"
            /\ UNCHANGED error
    /\ UNCHANGED <<config, request, main_locals, metrics, revenue_growth_rate,
                   net_income_margins_percentage, future_metrics, values>>

\* step 3
CalculateRevenueGrowthRate ==
    /\ Enter("_calculate_revenue_growth_rate")
    /\ IF PercentageChangesRaise(metrics)
       THEN Raise("ZeroDivisionError") /\ UNCHANGED revenue_growth_rate
       ELSE IF ChooseRaises(risk, PercentageChanges(metrics)) # "none"
       THEN /\ Raise(ChooseRaises(risk, PercentageChanges(metrics)))
            /\ UNCHANGED revenue_growth_rate
       ELSE /\ revenue_growth_rate' =
                    _choose_percentage_based_on_risk(risk, PercentageChanges(metrics))
            /\ pc' = "_calculate_net_income_margins_percentage"
            /\ UNCHANGED error
    /\ UNCHANGED <<config, request, main_locals, metrics, free_cash_flow_rate_percentage,
                   net_income_margins_percentage, future_metrics, values>>

\* step 4
CalculateNetIncomeMarginsPercentage ==
    /\ Enter("_calculate_net_income_margins_percentage")
    /\ IF NetIncomeMarginsRaise(metrics)
       THEN Raise("ZeroDivisionError") /\ UNCHANGED net_income_margins_percentage
       ELSE IF ChooseRaises(risk, NetIncomeMargins(metrics)) # "none"
       THEN /\ Raise(ChooseRaises(risk, NetIncomeMargins(metrics)))
            /\ UNCHANGED net_income_margins_percentage
       ELSE /\ net_income_margins_percentage' =
                    _choose_percentage_based_on_risk(risk, NetIncomeMargins(metrics))
            /\ pc' = "_estimate_future_metrics"
            /\ UNCHANGED error
    /\ UNCHANGED <<config, request, main_locals, metrics, free_cash_flow_rate_percentage,
                   revenue_growth_rate, future_metrics, values>>

\* step 5; metrics[-1] of an empty list raises IndexError
EstimateFutureMetrics ==
    /\ Enter("_estimate_future_metrics")
    /\ IF Len(metrics) = 0
       THEN Raise("IndexError") /\ UNCHANGED future_metrics
       ELSE /\ future_metrics' =
                    _estimate_future_metrics(metrics, free_cash_flow_rate_percentage,
                        revenue_growth_rate, net_income_margins_percentage)
            /\ pc' = "_calculate_terminal_value"
            /\ UNCHANGED error
    /\ UNCHANGED <<config, request, main_locals, metrics, ratios, values>>

\* step 6; future_metrics[-1] is evaluated by calculate before the call, and
\* raises IndexError when nothing was projected
CalculateTerminalValue ==
    /\ pc = "_calculate_terminal_value"
    /\ IF Len(future_metrics) = 0
       THEN Raise("IndexError") /\ UNCHANGED <<stages, terminal_value>>
       ELSE /\ stages' = Append(stages, "_calculate_terminal_value")
            /\ IF TerminalValueRaises
               THEN Raise("ZeroDivisionError") /\ UNCHANGED terminal_value
               ELSE /\ terminal_value' =
                            _calculate_terminal_value(future_metrics[Len(future_metrics)])
                    /\ pc' = "_calculate_today_value"
                    /\ UNCHANGED error
    /\ UNCHANGED <<config, request, main_locals, metrics, ratios, future_metrics,
                   today_value, fair_value, fair_with_margin_of_safety>>

\* step 7
CalculateTodayValue ==
    /\ Enter("_calculate_today_value")
    /\ IF TodayValueRaises
       THEN Raise("ZeroDivisionError") /\ UNCHANGED today_value
       ELSE /\ today_value' = _calculate_today_value(future_metrics, terminal_value)
            /\ pc' = "_calculate_fair_value"
            /\ UNCHANGED error
    /\ UNCHANGED <<config, request, main_locals, metrics, ratios, future_metrics,
                   terminal_value, fair_value, fair_with_margin_of_safety>>

\* step 8
CalculateFairValue ==
    /\ Enter("_calculate_fair_value")
    /\ IF FairValueRaises(quotes)
       THEN Raise("ZeroDivisionError") /\ UNCHANGED fair_value
       ELSE /\ fair_value' = _calculate_fair_value(quotes, today_value)
            /\ pc' = "_apply_margin_of_safety"
            /\ UNCHANGED error
    /\ UNCHANGED <<config, request, main_locals, metrics, ratios, future_metrics,
                   terminal_value, today_value, fair_with_margin_of_safety>>

\* a slip: the margin is turned into a fraction in place, on the object
ApplyMarginOfSafetyInPlace ==
    /\ Enter("_apply_margin_of_safety")
    /\ margin_of_safety' = margin_of_safety \div 100
    /\ fair_with_margin_of_safety' = _apply_margin_of_safety(fair_value)
    /\ pc' = "return"
    /\ UNCHANGED <<required_rate_of_return, years_to_project, risk,
                   perpetual_growth_rate, request, main_locals, error, metrics, ratios,
                   future_metrics, terminal_value, today_value, fair_value>>

\* step 9; calculate is about to return fair_value, fair_with_margin_of_safety
ApplyMarginOfSafety ==
    /\ Enter("_apply_margin_of_safety")
    /\ fair_with_margin_of_safety' = _apply_margin_of_safety(fair_value)
    /\ pc' = "return"
    /\ UNCHANGED <<config, request, main_locals, error, metrics, ratios, future_metrics,
                   terminal_value, today_value, fair_value>>

\* calculate returns, model.py prints the two values and takes the next ticker;
\* calculate's frame is gone
Return ==
    /\ pc = "return"
    /\ evaluated' = evaluated \cup {tick}
    /\ tick' = tick + 1
    /\ pc' = IF tick + 1 > NumTicks THEN "exit" ELSE "get_financials"
    /\ financials' = NoFinancials
    /\ quotes' = <<>>
    /\ stages' = <<>>
    /\ metrics' = <<>>
    /\ free_cash_flow_rate_percentage' = None
    /\ revenue_growth_rate' = None
    /\ net_income_margins_percentage' = None
    /\ future_metrics' = <<>>
    /\ terminal_value' = None
    /\ today_value' = None
    /\ fair_value' = None
    /\ fair_with_margin_of_safety' = None
    /\ UNCHANGED <<config, request, error>>

Next ==
    \/ GetFinancials
    \/ GetQuotes
    \/ CombineMetrics
    \/ CalculateFreeCashFlowRate
    \/ CalculateRevenueGrowthRate
    \/ CalculateNetIncomeMarginsPercentage
    \/ EstimateFutureMetrics
    \/ CalculateTerminalValue
    \/ CalculateTodayValue
    \/ CalculateFairValue
    \/ ApplyMarginOfSafety
    \/ Return

Spec == Init /\ [][Next]_vars

(* ------------------------------- claims -------------------------------- *)
Range(s) == {s[i] : i \in 1..Len(s)}
\* the current call of calculate has entered this step
Entered(step) == step \in Range(stages)

\* C1: when required_rate_of_return equals perpetual_growth_rate, calculate
\* returns no fair value and never enters _calculate_today_value, and the
\* failure of the terminal-value step, the step that divides by r - g, is an
\* InvalidConfiguration error.
C1_EqualRatesFailAsInvalidConfiguration ==
    (stages # <<>> /\ required_rate_of_return = perpetual_growth_rate) =>
        /\ pc # "return"
        /\ ~Entered("_calculate_today_value")
        /\ (pc = "raised" /\ Entered("_calculate_terminal_value")
                => error = "InvalidConfiguration")

\* C2: for shares_outstanding <= 0, calculate fails with
\* InvalidSharesOutstanding and yields neither fair_value nor
\* fair_value_with_margin.
C2_NonPositiveSharesFailAsInvalidSharesOutstanding ==
    (stages # <<>> /\ SharesOutstanding(quotes) <= 0) =>
        /\ pc # "return"
        /\ fair_value = None
        /\ fair_with_margin_of_safety = None
        /\ (pc = "raised" /\ Entered("_calculate_fair_value")
                => error = "InvalidSharesOutstanding")

\* C3: with fewer than 2 combined yearly metrics, calculate fails with
\* InsufficientHistory under every risk posture, never with a generic error
\* and never with a value.
C3_ShortHistoryFailsAsInsufficientHistory ==
    (Entered("_combine_metrics") /\ pc # "_combine_metrics" /\ Len(metrics) < 2) =>
        /\ pc # "return"
        /\ (pc = "raised" => error = "InsufficientHistory")

\* C4: for a history whose last year is Y and years_to_project = n >= 1,
\* _estimate_future_metrics returns exactly n entries whose year labels are
\* the integers Y+1, ..., Y+n in that order.
C4_ProjectedYearsContiguous ==
    (Entered("_estimate_future_metrics") /\ pc # "_estimate_future_metrics"
        /\ Len(metrics) > 0 /\ years_to_project >= 1) =>
        /\ Len(future_metrics) = years_to_project
        /\ \A k \in 1..Len(future_metrics) :
              future_metrics[k].year = PyInt(metrics[Len(metrics)].year + k)

\* the risk-selection rule as the specification words it
IsMin(v, R) == v \in Range(R) /\ \A x \in Range(R) : RLeq(v, x)
IsMax(v, R) == v \in Range(R) /\ \A x \in Range(R) : RLeq(x, v)
RECURSIVE Total(_)
Total(R) == IF R = <<>> THEN Zero ELSE RAdd(Head(R), Total(Tail(R)))
IsMean(v, R) == RMul(v, float(Len(R))) = Total(R)
Selects(posture, v, R) ==
    /\ posture = "conservative" => IsMin(v, R)
    /\ posture = "moderate" => IsMean(v, R)
    /\ posture = "bullish" => IsMax(v, R)

RatioLists ==
    IF Entered("_combine_metrics") /\ pc # "_combine_metrics"
    THEN {R \in ( (IF FreeCashFlowRatiosRaise(metrics) THEN {}
                   ELSE {FreeCashFlowRatios(metrics)})
                  \cup {PercentageChanges(metrics), NetIncomeMargins(metrics)} ) :
            Len(R) > 0}
    ELSE {}

\* C6: for any non-empty ratio list, the conservative selection <= the
\* moderate selection <= the bullish selection.
C6_SelectionOrdered ==
    \A R \in RatioLists :
        /\ RLeq(_choose_percentage_based_on_risk(Risk_CONSERVATIVE, R),
                _choose_percentage_based_on_risk(Risk_MODERATE, R))
        /\ RLeq(_choose_percentage_based_on_risk(Risk_MODERATE, R),
                _choose_percentage_based_on_risk(Risk_BULLISH, R))

\* C6's case: a list whose three selections are pairwise different
C6_Witness ==
    \E R \in RatioLists :
        /\ RLess(_choose_percentage_based_on_risk(Risk_CONSERVATIVE, R),
                 _choose_percentage_based_on_risk(Risk_MODERATE, R))
        /\ RLess(_choose_percentage_based_on_risk(Risk_MODERATE, R),
                 _choose_percentage_based_on_risk(Risk_BULLISH, R))

\* tickers whose fetch the loop has begun when the process is at `tick`
Attempted == 1..(IF tick > NumTicks THEN NumTicks ELSE tick)
\* the process has ended: the loop ran out, or an exception ended it
Terminated == pc \in {"exit", "raised"}

\* C7: a failed fetch or valuation of ticker i never prevents the evaluation
\* of a ticker j > i: when the process ends, every ticker of the batch has
\* been attempted.
C7_FailureDoesNotStopLaterTickers ==
    Terminated => \A j \in 1..NumTicks : j \in Attempted

\* the years whose net_income is not 0, and their free-cash-flow ratios
ValidYears(ms) ==
    LET nonzero(m) == ~RIsZero(m.net_income)
    IN  SelectSeq(ms, nonzero)

\* C8: in the free-cash-flow-rate derivation a year whose net_income is 0 is
\* left out of the ratio list and the derivation succeeds on the other years,
\* selecting among their ratios; it fails only when net_income is 0 in all
\* years (the kind of that failure, DataError / EmptyRatioSet, is not what
\* this formula tests).
C8_ZeroNetIncomeYearsExcluded ==
    (Entered("_calculate_free_cash_flow_rate")
        /\ \E k \in 1..Len(metrics) : RIsZero(metrics[k].net_income)) =>
        IF Len(ValidYears(metrics)) > 0
        THEN /\ free_cash_flow_rate_percentage # None
             /\ free_cash_flow_rate_percentage =
                    _choose_percentage_based_on_risk(risk,
                        FreeCashFlowRatios(ValidYears(metrics)))
        ELSE pc = "raised"

\* sum over t = from..n of FCF_t / (1 + r)^t
RECURSIVE DiscountedSum(_, _, _)
DiscountedSum(fm, r, t) ==
    IF t > Len(fm) THEN Zero
    ELSE RAdd(RDiv(fm[t].free_cash_flow, RPow(RAdd(One, r), t)),
              DiscountedSum(fm, r, t + 1))

\* C9: today's value is the sum over the projected years t = 1..n
\* (n = years_to_project) of FCF_t / (1+r)^t plus TerminalValue / (1+r)^n.
C9_TodayValueFormula ==
    today_value # None =>
        LET r == Fraction(required_rate_of_return)
            n == years_to_project
        IN  /\ Len(future_metrics) = n
            /\ today_value =
                   RAdd(DiscountedSum(future_metrics, r, 1),
                        RDiv(terminal_value, RPow(RAdd(One, r), n)))

\* C9's case: two projected years discounted at a rate that makes the
\* exponents matter, with a terminal value that is not 0
C9_Witness ==
    /\ today_value # None
    /\ years_to_project = 2
    /\ required_rate_of_return = 100
    /\ ~RIsZero(terminal_value)
    /\ ~RIsZero(future_metrics[1].free_cash_flow)

\* C10 as claimed: every returned result with margin_of_safety > 0 has
\* fair_value_with_margin <= fair_value (stated for a positive share count,
\* the only kind the quote endpoint is meant to deliver).
C10_MarginNeverRaisesFairValue ==
    (pc = "return" /\ margin_of_safety > 0 /\ SharesOutstanding(quotes) > 0) =>
        RLeq(fair_with_margin_of_safety, fair_value)

\* C10 as amended: every returned result has fair_value_with_margin =
\* fair_value * (1 - margin_of_safety/100), which for margin_of_safety > 0 is
\* <= fair_value when fair_value >= 0 and >= fair_value when fair_value <= 0.
C10_MarginOfSafetyFormula ==
    pc = "return" =>
        /\ fair_with_margin_of_safety =
               RMul(fair_value, RSub(One, Fraction(margin_of_safety)))
        /\ (margin_of_safety > 0 /\ RLeq(Zero, fair_value))
                => RLeq(fair_with_margin_of_safety, fair_value)
        /\ (margin_of_safety > 0 /\ RLeq(fair_value, Zero))
                => RLeq(fair_value, fair_with_margin_of_safety)

\* C10's case: a positive fair value returned with a margin of safety applied
C10_Witness ==
    /\ pc = "return"
    /\ margin_of_safety > 0
    /\ RLess(Zero, fair_value)
    /\ RLess(fair_with_margin_of_safety, fair_value)

(* ------------- calculate called on arbitrary statement lists ------------ *)
\* calculate is public: a caller may hand it any two statement lists, in any
\* order, of any lengths, and with a fiscal year reported more than once

\* the revenues 1000, 1100, 1210, ...: ten percent more every year
ScenarioRevenue(j) == (1000 * 11^j) \div 10^j

\* the income-statement record of fiscal year BaseYear + j
IncomeRecord(j) ==
    [date |-> DateOf(BaseYear + j), Revenue |-> ScenarioRevenue(j), NetIncome |-> 50]

\* the cash-flow record of fiscal year BaseYear + j; the free cash flow 50 + j
\* tells the years apart
CashFlowRecord(j) ==
    [date |-> DateOf(BaseYear + j), OperatingCashFlow |-> 75 + j, CapitalExpenditure |-> 25]

\* income statements: every list of at most MaxRecords records
IncomeLists ==
    UNION {SeqsOfLen({IncomeRecord(j) : j \in 0..(MaxRecords - 1)}, n) : n \in 0..MaxRecords}

\* cash-flow statements: the first n years oldest first, or the last n years
\* most recent first
CashFlowLists ==
    UNION {{[k \in 1..n |-> CashFlowRecord(k - 1)], [k \in 1..n |-> CashFlowRecord(MaxRecords - k)]} : n \in 0..MaxRecords}

AnyFinancials ==
    {[income_statement |-> i, cash_flow_statement |-> c] : i \in IncomeLists, c \in CashFlowLists}

\* a model object and one call calculate(financials, quotes)
InitCombine ==
    /\ required_rate_of_return = 100
    /\ years_to_project = 1
    /\ risk \in RiskValues
    /\ perpetual_growth_rate = 0
    /\ margin_of_safety = 0
    /\ tick = 1
    /\ financials \in AnyFinancials
    /\ quotes = <<[sharesOutstanding |-> 2]>>
    /\ evaluated = {}
    /\ pc = "_combine_metrics"
    /\ error = "none"
    /\ stages = <<>>
    /\ metrics = <<>>
    /\ free_cash_flow_rate_percentage = None
    /\ revenue_growth_rate = None
    /\ net_income_margins_percentage = None
    /\ future_metrics = <<>>
    /\ terminal_value = None
    /\ today_value = None
    /\ fair_value = None
    /\ fair_with_margin_of_safety = None
    /\ provider = NoResponses
    /\ minimum_years = 1
    /\ maximum_years = MaxHistory
    /\ fetched = EmptyDict

\* the first three steps of the call
NextCombine ==
    \/ CombineMetrics
    \/ CalculateFreeCashFlowRate
    \/ CalculateRevenueGrowthRate

SpecCombine == InitCombine /\ [][NextCombine]_vars

\* the number of pairs zip yields
PairedLen ==
    IF Len(financials.income_statement) < Len(financials.cash_flow_statement)
    THEN Len(financials.income_statement)
    ELSE Len(financials.cash_flow_statement)

\* the fiscal years of the income records that were paired, in provider order
PairedYears == [k \in 1..PairedLen |-> financials.income_statement[k].date[1]]

PairedYearsDistinct ==
    \A i, j \in 1..PairedLen : i # j => PairedYears[i] # PairedYears[j]

\* C11 as stated: for every pair of statement lists the combined sequence has
\* min(len(income), len(cash flow)) entries and its years are strictly
\* ascending, no year twice
C11_CombinedStrictlyAscending ==
    Entered("_combine_metrics") =>
        /\ Len(metrics) = PairedLen
        /\ \A i, j \in 1..Len(metrics) : i < j => metrics[i].year < metrics[j].year

\* C11 amended: the combined sequence has min(len(income), len(cash flow))
\* entries, carries exactly the years of the paired income records (each as
\* often as it was reported), in non-decreasing order; it is strictly
\* ascending when those years are pairwise distinct
C11_CombinedAscending ==
    Entered("_combine_metrics") =>
        /\ Len(metrics) = PairedLen
        /\ \A i, j \in 1..Len(metrics) : i < j => metrics[i].year <= metrics[j].year
        /\ \A y \in Range(PairedYears) :
              Cardinality({k \in 1..Len(metrics) : metrics[k].year = y})
                  = Cardinality({k \in 1..PairedLen : PairedYears[k] = y})
        /\ PairedYearsDistinct =>
              \A i, j \in 1..Len(metrics) : i < j => metrics[i].year < metrics[j].year

\* statements of different lengths, the paired income records distinct years
\* delivered most recent first, combined
C11_Witness ==
    /\ Entered("_combine_metrics")
    /\ Len(financials.income_statement) # Len(financials.cash_flow_statement)
    /\ PairedLen >= 2
    /\ PairedYearsDistinct
    /\ PairedYears[1] > PairedYears[2]
    /\ metrics[1].year < metrics[2].year

\* the cash-flow records dated in year y
CashFlowRecordsOf(y) ==
    {c \in 1..Len(financials.cash_flow_statement) :
        YearOfDate(financials.cash_flow_statement[c].date) = y}

\* C12: every combined entry pairs the income record and the cash-flow record
\* of one fiscal year: its free_cash_flow is computed from a cash-flow record
\* whose date's year is the entry's year, also for lists in different orders
\* or of different lengths (stated for the entries whose year the cash-flow
\* list reports at all)
C12_CombinedSameFiscalYear ==
    Entered("_combine_metrics") =>
        \A k \in 1..Len(metrics) :
            CashFlowRecordsOf(metrics[k].year) # {} =>
                \E c \in CashFlowRecordsOf(metrics[k].year) :
                    metrics[k].free_cash_flow
                        = _calculate_free_cash_flow(financials.cash_flow_statement[c])

\* C13: with a posture that is none of Conservative, Moderate, Bullish, or with
\* years_to_project < 1, calculate selects no percentage under any posture,
\* returns no value, and its failure is of kind InvalidConfiguration
C13_InvalidConfigurationRejected ==
    (stages # <<>>
        /\ (risk \notin {Risk_CONSERVATIVE, Risk_MODERATE, Risk_BULLISH} \/ years_to_project < 1)) =>
        /\ pc # "return"
        /\ risk \notin {Risk_CONSERVATIVE, Risk_MODERATE, Risk_BULLISH} =>
              /\ free_cash_flow_rate_percentage = None
              /\ revenue_growth_rate = None
              /\ net_income_margins_percentage = None
        /\ (pc = "raised" /\ Entered("_estimate_future_metrics")) =>
              error = "InvalidConfiguration"

\* the steps of calculate in the order of its body: Combine, DeriveRatios (the
\* three percentages), Project, TerminalValue, Discount, FairValue, ApplyMargin
StepOrder ==
    << "_combine_metrics", "_calculate_free_cash_flow_rate",
       "_calculate_revenue_growth_rate", "_calculate_net_income_margins_percentage",
       "_estimate_future_metrics", "_calculate_terminal_value",
       "_calculate_today_value", "_calculate_fair_value", "_apply_margin_of_safety" >>

\* C14: one call of calculate runs its stages in the fixed order, each at most
\* once and only after its predecessor completed (the stages entered are a
\* prefix of the order and the next to run is the prefix's successor); it
\* returns only after all of them, and after a failure nothing runs any more:
\* no later stage, no return of a value
C14_StagesInFixedOrder ==
    /\ Len(stages) <= Len(StepOrder)
    /\ stages = SubSeq(StepOrder, 1, Len(stages))
    /\ pc \in Range(StepOrder) => pc = StepOrder[Len(stages) + 1]
    /\ pc = "return" => (stages = StepOrder /\ error = "none")
    /\ pc = "raised" => (error # "none" /\ ~ENABLED Next)

\* a call that failed in TerminalValue after its five predecessors
C14_Witness ==
    /\ pc = "raised"
    /\ error = "ZeroDivisionError"
    /\ stages = SubSeq(StepOrder, 1, 6)
    /\ today_value = None

\* C15: no step changes the model object's five configuration fields, so every
\* call sees the configuration the object was built with; and no step of
\* calculate, completing or failing, changes the caller's financials or quotes
C15_CalculateLeavesInputsUnchanged ==
    [][/\ config' = config
       /\ pc \in Range(StepOrder) => (financials' = financials /\ quotes' = quotes)]_vars

\* a successful call on a history of two years or more, about to return, under
\* a non-zero margin of safety
C15_Witness ==
    /\ pc = "return"
    /\ stages = StepOrder
    /\ Len(financials.income_statement) >= 2
    /\ quotes # <<>>
    /\ margin_of_safety = 50

\* step 5 of the current call has completed
Projected ==
    /\ Entered("_estimate_future_metrics")
    /\ ~(pc = "raised" /\ Len(stages) = 5)

\* C16: the projection holds one entry per year 1..years_to_project, with
\* revenue_k = last historical revenue * (1 + growth rate)^k,
\* net_income_k = revenue_k * net income margin and
\* free_cash_flow_k = net_income_k * free-cash-flow rate
C16_ProjectionFormula ==
    Projected =>
        /\ Len(future_metrics) = years_to_project
        /\ \A k \in 1..Len(future_metrics) :
              /\ future_metrics[k].revenue
                     = RMul(metrics[Len(metrics)].revenue,
                            RPow(RAdd(One, revenue_growth_rate), k))
              /\ future_metrics[k].net_income
                     = RMul(future_metrics[k].revenue, net_income_margins_percentage)
              /\ future_metrics[k].free_cash_flow
                     = RMul(future_metrics[k].net_income, free_cash_flow_rate_percentage)

\* two projected years under a non-zero growth rate, the history delivered most
\* recent first
C16_Witness ==
    /\ Projected
    /\ Len(future_metrics) = 2
    /\ ~RIsZero(revenue_growth_rate)
    /\ future_metrics[2].revenue # future_metrics[1].revenue
    /\ Len(metrics) >= 2
    /\ metrics[Len(metrics)].revenue # metrics[1].revenue

\* the paired income record whose year is the r-th smallest (distinct years)
RecordOfRank(r) ==
    CHOOSE k \in 1..PairedLen :
        Cardinality({i \in 1..PairedLen : PairedYears[i] <= PairedYears[k]}) = r

\* revenue by ascending fiscal year, whatever order the records came in
AscendingRevenue ==
    [r \in 1..PairedLen |-> float(financials.income_statement[RecordOfRank(r)].Revenue)]

\* the n - 1 ratios (revenue[i] - revenue[i-1]) / revenue[i-1] of consecutive years
ConsecutiveGrowth ==
    [r \in 1..(PairedLen - 1) |->
        RDiv(RSub(AscendingRevenue[r + 1], AscendingRevenue[r]), AscendingRevenue[r])]

\* step 3 of the current call has completed
GrowthDerived ==
    /\ Entered("_calculate_revenue_growth_rate")
    /\ pc # "raised"

\* C17: for a combined history of n >= 2 distinct years the revenue growth rate
\* is the risk selection over exactly the n - 1 growth ratios of consecutive
\* years in ascending year order, whatever order the provider delivered the
\* records in; when every ratio is the same g the rate is g under every posture
C17_GrowthOverConsecutiveYears ==
    (GrowthDerived /\ PairedLen >= 2 /\ PairedYearsDistinct
        /\ risk \in {Risk_CONSERVATIVE, Risk_MODERATE, Risk_BULLISH}) =>
        /\ Len(PercentageChanges(metrics)) = PairedLen - 1
        /\ Selects(risk, revenue_growth_rate, ConsecutiveGrowth)
        /\ (\A r \in 1..(PairedLen - 1) : ConsecutiveGrowth[r] = ConsecutiveGrowth[1])
              => revenue_growth_rate = ConsecutiveGrowth[1]

\* revenues 1000, 1100, 1210 delivered out of year order: ten percent exactly
C17_Witness ==
    /\ GrowthDerived
    /\ risk = Risk_MODERATE
    /\ PairedLen = 3
    /\ PairedYearsDistinct
    /\ PairedYears[1] > PairedYears[2]
    /\ PairedYears[3] > PairedYears[1]
    /\ revenue_growth_rate = Rat(1, 10)

\* the cash flows step 7 discounts: every projected free cash flow and the
\* terminal value
DiscountedCashFlows ==
    {future_metrics[k].free_cash_flow : k \in 1..Len(future_metrics)} \cup {terminal_value}

\* C18 as stated: for every r > 0, every cash flow X and every t >= 1 the
\* present value X / (1 + r)^(t+1) is strictly smaller than X / (1 + r)^t
C18_PresentValueDecreasing ==
    (Entered("_calculate_today_value") /\ RLess(Zero, Fraction(required_rate_of_return))) =>
        \A X \in DiscountedCashFlows : \A t \in 1..MaxProject :
            RLess(_present_value(X, Fraction(required_rate_of_return), t + 1),
                  _present_value(X, Fraction(required_rate_of_return), t))

\* C18 amended: for r > 0 and t >= 1 one more year of discounting strictly
\* lowers the present value of a positive cash flow, strictly raises that of a
\* negative one (toward zero), and leaves a zero cash flow at zero
C18_PresentValueTowardZero ==
    (Entered("_calculate_today_value") /\ RLess(Zero, Fraction(required_rate_of_return))) =>
        \A X \in DiscountedCashFlows \cup {Zero} : \A t \in 1..MaxProject :
            LET near == _present_value(X, Fraction(required_rate_of_return), t)
                far == _present_value(X, Fraction(required_rate_of_return), t + 1)
            IN  /\ RLess(Zero, X) => RLess(far, near)
                /\ RLess(X, Zero) => RLess(near, far)
                /\ RIsZero(X) => (RIsZero(near) /\ RIsZero(far))

\* step 7 discounted negative projected free cash flows at r > 0
C18_Witness ==
    /\ Entered("_calculate_today_value")
    /\ today_value # None
    /\ RLess(Zero, Fraction(required_rate_of_return))
    /\ Len(future_metrics) = MaxProject
    /\ \A k \in 1..Len(future_metrics) : RLess(future_metrics[k].free_cash_flow, Zero)

(* ------------------ FinancialModelingPrep.get_financials ---------------- *)
\* a statement's records as the endpoint lists them, the most recent first;
\* the date tells them apart
StatementRecords(n) == [k \in 1..n |-> [date |-> DateOf(BaseYear + n - k)]]

\* what one endpoint may answer: a failed request, or a list of any length up
\* to one more than the largest maximum_years
Responses ==
    {Response(<<>>, TRUE)} \cup {Response(StatementRecords(n), FALSE) : n \in 0..(MaxRecords + 1)}

\* len(data["financials"]) >= minimum_years
_has_more_than_minimum(min_years, data) == Len(data.financials) >= min_years

\* financials[:maximum_years] if maximum_years < len(financials) else
\* financials, for maximum_years >= 0
_cut_data_to_maximum_years(max_years, data) ==
    IF max_years < Len(data.financials)
    THEN SubSeq(data.financials, 1, max_years)
    ELSE data.financials

\* financials[key] = value
DictSet(dict, key, value) ==
    [k \in DOMAIN dict \cup {key} |-> IF k = key THEN value ELSE dict[k]]

\* the income statement: the request, the two raises, the cut
FetchIncomeStatement ==
    /\ pc = "income_statement"
    /\ IF provider.income_statement.err
       THEN Raise("Exception") /\ UNCHANGED fetched
       ELSE IF ~_has_more_than_minimum(minimum_years, provider.income_statement)
       THEN Raise("Exception") /\ UNCHANGED fetched
       ELSE /\ fetched' = DictSet(fetched, "income_statement",
                    _cut_data_to_maximum_years(maximum_years, provider.income_statement))
            /\ pc' = "balance_sheet"
            /\ UNCHANGED error
    /\ UNCHANGED <<config, provider, minimum_years, maximum_years, main_locals,
                   stages, metrics, ratios, future_metrics, values>>

\* the balance sheet
FetchBalanceSheet ==
    /\ pc = "balance_sheet"
    /\ IF provider.balance_sheet.err
       THEN Raise("Exception") /\ UNCHANGED fetched
       ELSE IF ~_has_more_than_minimum(minimum_years, provider.balance_sheet)
       THEN Raise("Exception") /\ UNCHANGED fetched
       ELSE /\ fetched' = DictSet(fetched, "balance_sheet",
                    _cut_data_to_maximum_years(maximum_years, provider.balance_sheet))
            /\ pc' = "cash_flow_statement"
            /\ UNCHANGED error
    /\ UNCHANGED <<config, provider, minimum_years, maximum_years, main_locals,
                   stages, metrics, ratios, future_metrics, values>>

\* the cash-flow statement, and return financials
FetchCashFlowStatement ==
    /\ pc = "cash_flow_statement"
    /\ IF provider.cash_flow_statement.err
       THEN Raise("Exception") /\ UNCHANGED fetched
       ELSE IF ~_has_more_than_minimum(minimum_years, provider.cash_flow_statement)
       THEN Raise("Exception") /\ UNCHANGED fetched
       ELSE /\ fetched' = DictSet(fetched, "cash_flow_statement",
                    _cut_data_to_maximum_years(maximum_years, provider.cash_flow_statement))
            /\ pc' = "return financials"
            /\ UNCHANGED error
    /\ UNCHANGED <<config, provider, minimum_years, maximum_years, main_locals,
                   stages, metrics, ratios, future_metrics, values>>

\* a provider object and one call get_financials(symbol, minimum_years,
\* maximum_years)
InitProvider ==
    /\ required_rate_of_return = 100
    /\ years_to_project = 1
    /\ risk = Risk_MODERATE
    /\ perpetual_growth_rate = 0
    /\ margin_of_safety = 0
    /\ tick = 1
    /\ financials = NoFinancials
    /\ quotes = <<>>
    /\ evaluated = {}
    /\ pc = "income_statement"
    /\ error = "none"
    /\ stages = <<>>
    /\ metrics = <<>>
    /\ free_cash_flow_rate_percentage = None
    /\ revenue_growth_rate = None
    /\ net_income_margins_percentage = None
    /\ future_metrics = <<>>
    /\ terminal_value = None
    /\ today_value = None
    /\ fair_value = None
    /\ fair_with_margin_of_safety = None
    /\ provider \in [{"income_statement", "balance_sheet", "cash_flow_statement"} -> Responses]
    /\ minimum_years \in 1..MaxRecords
    /\ maximum_years \in 1..MaxRecords
    /\ fetched = EmptyDict

NextProvider ==
    \/ FetchIncomeStatement
    \/ FetchBalanceSheet
    \/ FetchCashFlowStatement

SpecProvider == InitProvider /\ [][NextProvider]_vars

\* C19: when get_financials returns, each of the three statements holds at
\* least minimum_years and at most maximum_years records, a prefix of the
\* provider's list in its order; a call that cannot deliver that raises
C19_FinancialsWithinYears ==
    pc = "return financials" =>
        \A key \in {"income_statement", "balance_sheet", "cash_flow_statement"} :
            /\ key \in DOMAIN fetched
            /\ Len(fetched[key]) >= minimum_years
            /\ Len(fetched[key]) <= maximum_years
            /\ fetched[key] = SubSeq(provider[key].financials, 1, Len(fetched[key]))

====
